---- MODULE Spec2Model ----
(***************************************************************************)
(* A state-machine model of Icinga 2's configuration item engine           *)
(* (lib/config/configitem.cpp): the item registry, the commit pipeline     *)
(* CommitNewItems/CommitItems, the activator ActivateItems and the         *)
(* reload/rollback protocol ReloadObject.                                  *)
(***************************************************************************)
EXTENDS Integers, Sequences, FiniteSets, TLC

(***************************************************************************)
(* The type system (external).  Two config types: Host has no name         *)
(* composer and no load dependency; Service has a name composer and loads  *)
(* after Host.  AllTypes is the iteration order of std::set<Type::Ptr>.    *)
(***************************************************************************)
AllTypes == <<"Service", "Host">>

Types == {AllTypes[k] : k \in DOMAIN AllTypes}

HasNameComposer(t) == t = "Service"

GetLoadDependencies(t) == IF t = "Service" THEN {"Host"} ELSE {}

NoItem == 0

NoObj == 0

NoCtx == 0

(***************************************************************************)
(* The declarations the compiler hands to the engine: the immutable part   *)
(* of a ConfigItem (constructor, lines 65-76).  `oname` is the name the    *)
(* object gets (the name composer's result for a Service), `x` the value   *)
(* the expression gives the object's FAConfig field, `fails` the step of   *)
(* Commit that throws for this declaration, `oal` whether the object's     *)
(* OnAllConfigLoaded throws.                                               *)
(***************************************************************************)
Decl(t, n, abs, dt, ign, p, ct, on, xv, f, o) ==
    [type |-> t, name |-> n, abstract |-> abs, defaultTmpl |-> dt,
     ignoreOnError |-> ign, path |-> p, creationType |-> ct, oname |-> on,
     x |-> xv, fails |-> f, oal |-> o]

ItemDecl ==
    << Decl("Host", "a", FALSE, FALSE, FALSE, <<"p", "a">>, "object", "a", 1, "none", "ok"),
       Decl("Service", "b", FALSE, FALSE, FALSE, <<"p", "b">>, "apply", "a!b", 1, "none", "ok"),
       Decl("Host", "a", TRUE, FALSE, FALSE, <<"p", "t">>, "template", "a", 0, "none", "ok"),
       Decl("Service", "b", TRUE, TRUE, FALSE, <<"p", "t">>, "template", "b", 0, "none", "ok"),
       Decl("Host", "bad", FALSE, FALSE, TRUE, <<"p", "x">>, "object", "bad", 1, "eval", "ok"),
       Decl("Host", "c", FALSE, FALSE, FALSE, <<"p", "c">>, "object", "c", 1, "none", "ok"),
       Decl("Host", "a", FALSE, FALSE, FALSE, <<"q", "a">>, "object", "a", 2, "none", "ok"),
       Decl("Service", "b", FALSE, FALSE, FALSE, <<"q", "b">>, "object", "a!b", 2, "none", "ok"),
       Decl("Host", "a", FALSE, FALSE, FALSE, <<"q", "a">>, "object", "a", 2, "eval", "ok"),
       Decl("Host", "c", FALSE, FALSE, FALSE, <<"q", "c">>, "object", "c", 2, "none", "ok"),
       Decl("Host", "d", FALSE, FALSE, FALSE, <<"p", "d">>, "object", "d", 1, "eval", "ok"),
       Decl("Host", "e", FALSE, FALSE, FALSE, <<"p", "e">>, "object", "e", 1, "none", "throw"),
       Decl("Host", "f", FALSE, FALSE, TRUE, <<"p", "f">>, "object", "f", 1, "none", "throw"),
       Decl("Service", "b", FALSE, FALSE, TRUE, <<"p", "s">>, "apply", "c!b", 1, "none", "throw"),
       Decl("Host", "c", FALSE, FALSE, FALSE, <<"p", "c">>, "object", "c", 1, "none", "ok") >>

Items == DOMAIN ItemDecl

m_Type(i) == ItemDecl[i].type

m_Name(i) == ItemDecl[i].name

IsAbstract(i) == ItemDecl[i].abstract

IsDefaultTemplate(i) == ItemDecl[i].defaultTmpl

IsIgnoreOnError(i) == ItemDecl[i].ignoreOnError

Key(i) == <<m_Type(i), m_Name(i)>>

Keys == {Key(i) : i \in Items}

ObjKeys == {<<ItemDecl[i].type, ItemDecl[i].oname>> : i \in Items}

Contexts == {1, 2}

VARIABLES
    m_Items,              \* ConfigItem::m_Items: (type, name) -> item
    m_DefaultTemplates,   \* ConfigItem::m_DefaultTemplates
    m_UnnamedItems,       \* ConfigItem::m_UnnamedItems
    m_IgnoredItems,       \* ConfigItem::m_IgnoredItems
    m_Object,             \* item -> its m_Object
    m_ActivationContext,  \* item -> its m_ActivationContext
    objs,                 \* the config objects instantiated so far
    objectMap,            \* ConfigType's (type, name) -> registered object
    written,              \* items whose snapshot ConfigCompilerContext wrote
    hist,                 \* the last two calls of the registry's clients, each with the indices it left
    rm,                   \* the last call on the ignored list and the paths it unlinked
    pc,                   \* where the calling thread is
    stack,                \* the CommitNewItems activations, the innermost last
    queue,                \* the work queue's tasks not yet started
    running,              \* the tasks the work queue's threads are executing
    upqExc,               \* WorkQueue::HasExceptions
    newItems,             \* CommitItems' newItems
    result,               \* what the call returned
    context,              \* the activation context the call commits
    idx,                  \* the calling thread's loop index
    deletedObjects,       \* ReloadObject's vector of DeletedObjectInfo
    rl,                   \* the ReloadObject call in progress
    callerPc,             \* concurrent ReloadObject callers: where each one is
    mtx,                  \* the holder of ActivateItems' static mutex
    commitDone,           \* items whose Commit task has ended
    oalStarted,           \* items whose OnAllConfigLoaded task has started
    oalDone,              \* items whose OnAllConfigLoaded task has ended
    oalView,              \* item -> oalDone as it was when its OnAllConfigLoaded started
    modAttrs              \* what the last ActivateItems' modified-attributes step did

regVars == <<m_Items, m_DefaultTemplates, m_UnnamedItems, m_IgnoredItems,
             m_Object, m_ActivationContext>>

objVars == <<objs, objectMap, written>>

pipeVars == <<pc, stack, queue, running, upqExc, newItems, result, context, idx>>

obsVars == <<commitDone, oalStarted, oalDone, oalView, modAttrs>>

reloadVars == <<deletedObjects, rl>>

lockVars == <<callerPc, mtx>>

vars == <<regVars, objVars, hist, rm, lockVars, reloadVars, pipeVars, obsVars>>

(***************************************************************************)
(* Bounds of the model.                                                    *)
(***************************************************************************)
MaxUnnamed == 2

MaxObjs == 3

MaxPathLen == 3

MaxIgnored == 2

MaxDepth == 4

\* The number of items registered before CommitItems is called.
MaxStart == 3

NumWorkers == 2

----------------------------------------------------------------------------
(***************************************************************************)
(* Item registry                                                           *)
(***************************************************************************)

SeqRemove(s, e) == SelectSeq(s, LAMBDA y : y # e)

InSeq(s, e) == \E k \in DOMAIN s : s[k] = e

\* ConfigItem::GetByTypeAndName
GetByTypeAndName(t, n) == IF <<t, n>> \in Keys THEN m_Items[<<t, n>>] ELSE NoItem

\* Register's branch: a non-abstract item of a type with a name composer
\* goes to m_UnnamedItems, every other item to m_Items.
RegistersUnnamedAlways(i) == ~IsAbstract(i)

RegistersUnnamed(i) == ~IsAbstract(i) /\ HasNameComposer(m_Type(i))

\* Register's throw: the named index already holds an entry for the name.
RegisterThrowsOnlyForObjects(i) ==
    /\ ~RegistersUnnamed(i)
    /\ m_Items[Key(i)] # NoItem
    /\ ~IsAbstract(m_Items[Key(i)])

RegisterThrows(i) ==
    /\ ~RegistersUnnamed(i)
    /\ m_Items[Key(i)] # NoItem

\* Register putting every item it accepts into the unnamed list as well.
RegisterInBothIndices(i, c) ==
    /\ m_ActivationContext' = [m_ActivationContext EXCEPT ![i] = c]
    /\ IF RegistersUnnamed(i)
       THEN /\ m_UnnamedItems' = Append(m_UnnamedItems, i)
            /\ UNCHANGED <<m_Items, m_DefaultTemplates>>
       ELSE IF RegisterThrows(i)
       THEN UNCHANGED <<m_Items, m_DefaultTemplates, m_UnnamedItems>>
       ELSE /\ m_Items' = [m_Items EXCEPT ![Key(i)] = i]
            /\ m_DefaultTemplates' =
                   IF IsDefaultTemplate(i)
                   THEN [m_DefaultTemplates EXCEPT ![Key(i)] = i]
                   ELSE m_DefaultTemplates
            /\ m_UnnamedItems' = Append(m_UnnamedItems, i)

\* ConfigItem::Register, called with current activation context c.
Register(i, c) ==
    /\ m_ActivationContext' = [m_ActivationContext EXCEPT ![i] = c]
    /\ IF RegistersUnnamed(i)
       THEN /\ m_UnnamedItems' = Append(m_UnnamedItems, i)
            /\ UNCHANGED <<m_Items, m_DefaultTemplates>>
       ELSE IF RegisterThrows(i)
       THEN UNCHANGED <<m_Items, m_DefaultTemplates, m_UnnamedItems>>
       ELSE /\ m_Items' = [m_Items EXCEPT ![Key(i)] = i]
            /\ m_DefaultTemplates' =
                   IF IsDefaultTemplate(i)
                   THEN [m_DefaultTemplates EXCEPT ![Key(i)] = i]
                   ELSE m_DefaultTemplates
            /\ UNCHANGED m_UnnamedItems

\* ConfigObject::Unregister on object o: the type's object map drops it.
ObjectUnregistered(om, o) ==
    [k \in DOMAIN om |-> IF om[k] = o THEN NoObj ELSE om[k]]

\* ConfigItem::Unregister
Unregister(i) ==
    /\ m_Object' = [m_Object EXCEPT ![i] = NoObj]
    /\ objectMap' = IF m_Object[i] # NoObj
                    THEN ObjectUnregistered(objectMap, m_Object[i])
                    ELSE objectMap
    /\ m_UnnamedItems' = SeqRemove(m_UnnamedItems, i)
    /\ m_Items' = [m_Items EXCEPT ![Key(i)] = NoItem]
    /\ m_DefaultTemplates' = [m_DefaultTemplates EXCEPT ![Key(i)] = NoItem]

\* Whether item i is in the registry (either index).
IsRegistered(i) == m_Items[Key(i)] = i \/ InSeq(m_UnnamedItems, i)

----------------------------------------------------------------------------
(***************************************************************************)
(* ConfigItem::Commit                                                      *)
(***************************************************************************)

\* What Commit(i) ends with: "null" for an abstract item (line 190),
\* "ignored" when a step throws and the item has ignore-on-error (lines
\* 209-218, 261-270, 280-289), "throw" when it throws otherwise, "object"
\* when it reaches line 319.
CommitOutcome(i) ==
    IF IsAbstract(i) THEN "null"
    ELSE IF ItemDecl[i].fails # "none"
    THEN (IF IsIgnoreOnError(i) THEN "ignored" ELSE "throw")
    ELSE "object"

\* The object Commit instantiates and fills for item i (lines 193-253).
NewObject(i) ==
    [type |-> m_Type(i), name |-> ItemDecl[i].oname, item |-> i,
     creationType |-> ItemDecl[i].creationType, x |-> ItemDecl[i].x, s |-> 0,
     active |-> FALSE, deleted |-> FALSE, pre |-> "no"]

ObjKey(o) == <<objs[o].type, objs[o].name>>

\* The item Commit attaches the new object to (line 317).
CommitAttachesTo(i) == i

\* ConfigItem::Commit(discard) on item i, as one step.
Commit(i) ==
    CASE CommitOutcome(i) = "null" ->
            UNCHANGED <<m_IgnoredItems, m_Object, objs, objectMap, written>>
      [] CommitOutcome(i) = "throw" ->
            UNCHANGED <<m_IgnoredItems, m_Object, objs, objectMap, written>>
      [] CommitOutcome(i) = "ignored" ->
            /\ m_IgnoredItems' = Append(m_IgnoredItems, ItemDecl[i].path)
            /\ UNCHANGED <<m_Object, objs, objectMap, written>>
      [] OTHER ->
            LET o == Len(objs) + 1 IN
            /\ objs' = Append(objs, NewObject(i))
            /\ written' = Append(written, i)
            /\ objectMap' = [objectMap EXCEPT ![<<m_Type(i), ItemDecl[i].oname>>] = o]
            /\ m_Object' = [m_Object EXCEPT ![CommitAttachesTo(i)] = o]
            /\ UNCHANGED m_IgnoredItems

----------------------------------------------------------------------------
(***************************************************************************)
(* SpecReg: the registry's interface called directly, one call per step.   *)
(***************************************************************************)
RegItems == {1, 2, 3, 4}

Indices == <<m_Items, m_UnnamedItems, m_DefaultTemplates>>

NoCall == [op |-> "none", item |-> NoItem, res |-> "ok", snap |-> <<>>]

\* The log after a client's Register(i): a step that contains Register(i, c).
LogRegister(i) ==
    hist' = <<hist[2], [op |-> "Register", item |-> i,
                        res |-> IF RegisterThrows(i) THEN "DuplicateDefinition" ELSE "ok",
                        snap |-> Indices']>>

InitRegistry ==
    /\ m_Items = [k \in Keys |-> NoItem]
    /\ m_DefaultTemplates = [k \in Keys |-> NoItem]
    /\ m_UnnamedItems = <<>>
    /\ m_IgnoredItems = <<>>
    /\ m_Object = [i \in Items |-> NoObj]
    /\ m_ActivationContext = [i \in Items |-> NoCtx]
    /\ objs = <<>>
    /\ objectMap = [k \in ObjKeys |-> NoObj]
    /\ written = <<>>

NoRm == [op |-> "none", arg |-> <<>>, unlinked |-> {}]

Callers == {1, 2}

NoCaller == 0

NoReload == [destroyFirst |-> FALSE, cb |-> "none", phase |-> "none", recoverApply |-> FALSE]

InitPipe(start) ==
    /\ pc = start
    /\ deletedObjects = <<>>
    /\ rl = NoReload
    /\ callerPc = [c \in Callers |-> "idle"]
    /\ mtx = NoCaller
    /\ stack = <<>>
    /\ queue = {}
    /\ running = {}
    /\ upqExc = FALSE
    /\ newItems = <<>>
    /\ result = "none"
    /\ context = 1
    /\ idx = 1
    /\ commitDone = {}
    /\ oalStarted = {}
    /\ oalDone = {}
    /\ oalView = [i \in Items |-> {}]
    /\ modAttrs = "off"

InitReg ==
    /\ InitRegistry
    /\ InitPipe("idle")
    /\ hist = <<NoCall, NoCall>>
    /\ rm = NoRm

ApiRegister(i) ==
    /\ Len(m_UnnamedItems) < MaxUnnamed
    /\ Register(i, 1)
    /\ LogRegister(i)
    /\ UNCHANGED <<m_IgnoredItems, m_Object, objs, objectMap, written, rm, lockVars, reloadVars, pipeVars, obsVars>>

ApiUnregister(i) ==
    /\ Unregister(i)
    /\ hist' = <<hist[2], [op |-> "Unregister", item |-> i, res |-> "ok", snap |-> <<>>]>>
    /\ UNCHANGED <<m_IgnoredItems, m_ActivationContext, objs, written, rm, lockVars, reloadVars, pipeVars, obsVars>>

\* Commit on an item, with or without an attached object.
ApiCommit(i) ==
    /\ Len(objs) < MaxObjs
    /\ Commit(i)
    /\ hist' = <<hist[2], [op |-> "Commit", item |-> i, res |-> CommitOutcome(i), snap |-> <<>>]>>
    /\ UNCHANGED <<m_Items, m_DefaultTemplates, m_UnnamedItems, m_ActivationContext, rm, lockVars, reloadVars,
                   pipeVars, obsVars>>

NextReg ==
    \/ \E i \in RegItems : ApiRegister(i)
    \/ \E i \in RegItems : ApiUnregister(i)
    \/ \E i \in RegItems : ApiCommit(i)

SpecReg == InitReg /\ [][NextReg]_vars

----------------------------------------------------------------------------
(***************************************************************************)
(* Claims about the registry, checked under SpecReg.                       *)
(***************************************************************************)

\* The step is a call Register(i).
IsRegisterCall(i) == hist'[2].op = "Register" /\ hist'[2].item = i

\* The step is a call Unregister(i).
IsUnregisterCall(i) == hist'[2].op = "Unregister" /\ hist'[2].item = i

\* C6 (as claimed): Register(i) fails with DuplicateDefinition exactly when
\* a non-abstract, non-composite item with the same (type, name) is
\* registered; it succeeds when the same-named entry is an abstract template.
C6_FailsExactlyOnConcreteDuplicate ==
    [][\A i \in RegItems :
          IsRegisterCall(i) =>
              ((hist'[2].res = "DuplicateDefinition") <=>
                  \E j \in Items : /\ m_Items[Key(i)] = j
                                   /\ ~IsAbstract(j)
                                   /\ ~HasNameComposer(m_Type(j)))]_vars

\* C6 (amended): Register(i) fails with DuplicateDefinition exactly when i
\* goes to the named index (i is abstract or its type has no name composer)
\* and the named index already holds an entry, abstract or not, for i's
\* (type, name); a failed call leaves the indices as they were and a
\* successful one leaves i registered.
C6_FailsExactlyOnNamedIndexEntry ==
    [][\A i \in RegItems :
          IsRegisterCall(i) =>
              /\ (hist'[2].res = "DuplicateDefinition") <=>
                    /\ (IsAbstract(i) \/ ~HasNameComposer(m_Type(i)))
                    /\ m_Items[Key(i)] # NoItem
              /\ hist'[2].res = "DuplicateDefinition" => Indices' = Indices
              /\ hist'[2].res = "ok" => IsRegistered(i)']_vars

\* C6 witness: a Register call has just failed against an abstract template.
C6_Witness ==
    /\ hist[2].op = "Register"
    /\ hist[2].res = "DuplicateDefinition"
    /\ ~IsAbstract(hist[2].item)
    /\ m_Items[Key(hist[2].item)] # NoItem
    /\ IsAbstract(m_Items[Key(hist[2].item)])

\* C10 (as claimed): after a successful Register(i) of an item not registered
\* before, Unregister(i) and Register(i) again succeed and leave the named
\* index, the unnamed list and the default-template index as the first
\* Register left them; and an Unregister(i) right after an Unregister(i)
\* changes nothing.
C10_RoundTripAndIdempotence ==
    [][\A i \in RegItems :
          /\ ( /\ hist[1].op = "Register" /\ hist[1].item = i /\ hist[1].res = "ok"
               /\ Cardinality({k \in DOMAIN hist[1].snap[2] : hist[1].snap[2][k] = i}) <= 1
               /\ hist[2].op = "Unregister" /\ hist[2].item = i
               /\ IsRegisterCall(i) )
             => (hist'[2].res = "ok" /\ hist'[2].snap = hist[1].snap)
          /\ ( /\ hist[2].op = "Unregister" /\ hist[2].item = i
               /\ IsUnregisterCall(i) )
             => UNCHANGED <<regVars, objVars>>]_vars

----------------------------------------------------------------------------
(***************************************************************************)
(* SpecIgn: the ignored-items list.  Paths are character sequences.        *)
(***************************************************************************)
Chars == {"p", "x"}

RECURSIVE SeqsOfLen(_)
SeqsOfLen(n) ==
    IF n = 0 THEN {<<>>}
    ELSE {Append(q, c) : q \in SeqsOfLen(n - 1), c \in Chars}

Prefixes == UNION {SeqsOfLen(n) : n \in 0..MaxPathLen}

Paths == Prefixes \ {<<>>}

NPos == -1

\* String::Find: the first position at which `sub` occurs in `str`, or NPos.
Find(str, sub) ==
    LET hits == {k \in 0..(Len(str) - Len(sub)) :
                    SubSeq(str, k + 1, k + Len(sub)) = sub}
    IN IF hits = {} THEN NPos
       ELSE CHOOSE k \in hits : \A h \in hits : k <= h

StartsWith(str, pre) ==
    Len(pre) <= Len(str) /\ SubSeq(str, 1, Len(pre)) = pre

Range(q) == {q[k] : k \in DOMAIN q}

\* Commit's handler for an ignore-on-error item whose debug-info path is p
\* (lines 213-216): the path joins m_IgnoredItems.
IgnoreItem(p) ==
    /\ Len(m_IgnoredItems) < MaxIgnored
    /\ m_IgnoredItems' = Append(m_IgnoredItems, p)
    /\ rm' = [op |-> "ignore", arg |-> p, unlinked |-> {}]
    /\ UNCHANGED <<m_Items, m_DefaultTemplates, m_UnnamedItems, m_Object,
                   m_ActivationContext, objVars, hist, lockVars, reloadVars, pipeVars, obsVars>>

\* ConfigItem::RemoveIgnoredItems(allowedConfigPath)
RemoveIgnoredItems(allowedConfigPath) ==
    /\ rm' = [op |-> "remove", arg |-> allowedConfigPath,
              unlinked |-> {path \in Range(m_IgnoredItems) :
                               Find(path, allowedConfigPath) # NPos}]
    /\ m_IgnoredItems' = <<>>
    /\ UNCHANGED <<m_Items, m_DefaultTemplates, m_UnnamedItems, m_Object,
                   m_ActivationContext, objVars, hist, lockVars, reloadVars, pipeVars, obsVars>>

NextIgn ==
    \/ \E p \in Paths : IgnoreItem(p)
    \/ \E pre \in Prefixes : RemoveIgnoredItems(pre)

SpecIgn == InitReg /\ [][NextIgn]_vars

\* C9 (as claimed): RemoveIgnoredItems(prefix) unlinks exactly the ignored
\* paths that start with prefix and drops exactly those from the list; every
\* other ignored path stays in the list and on disk.
C9_RemovesExactlyPrefixed ==
    [][\A pre \in Prefixes :
          (rm'.op = "remove" /\ rm'.arg = pre) =>
              /\ rm'.unlinked = {p \in Range(m_IgnoredItems) : StartsWith(p, pre)}
              /\ m_IgnoredItems' =
                     SelectSeq(m_IgnoredItems, LAMBDA p : ~StartsWith(p, pre))]_vars

----------------------------------------------------------------------------
(***************************************************************************)
(* The work queue (base/workqueue.hpp, external): tasks are enqueued, up   *)
(* to NumWorkers threads execute them in any order, Join returns once no   *)
(* task is pending or running, a task that throws sets HasExceptions.      *)
(***************************************************************************)
Task(k, i, a, n) == [kind |-> k, item |-> i, arg |-> a, n |-> n]

JoinDone == queue = {} /\ running = {}

Min(S) == CHOOSE k \in S : \A h \in S : k <= h

(***************************************************************************)
(* ConfigItem::CommitNewItems                                              *)
(***************************************************************************)

\* The iteration order of the named index: std::map by type, then by name.
SortedNames == <<"a", "b", "bad", "c", "d", "e", "f">>

KeySeq ==
    [k \in 1..(Len(AllTypes) * Len(SortedNames)) |->
        <<AllTypes[((k - 1) \div Len(SortedNames)) + 1],
          SortedNames[((k - 1) % Len(SortedNames)) + 1]>>]

\* Lines 405-409, 418-424: what makes a registered item a candidate.
Candidate(i, c) ==
    /\ ~IsAbstract(i)
    /\ m_Object[i] = NoObj
    /\ m_ActivationContext[i] = c

\* Lines 403-413
CollectNamed(c) ==
    LET ks == SelectSeq(KeySeq, LAMBDA k : /\ k \in Keys
                                           /\ m_Items[k] # NoItem
                                           /\ Candidate(m_Items[k], c))
    IN [n \in DOMAIN ks |-> m_Items[ks[n]]]

\* Lines 417-427
CollectUnnamed(c) == SelectSeq(m_UnnamedItems, LAMBDA i : Candidate(i, c))

\* Lines 415-421, 429: the unnamed list keeps the other contexts' items.
KeptUnnamed(c) == SelectSeq(m_UnnamedItems, LAMBDA i : m_ActivationContext[i] # c)

NewFrame == [pc |-> "collect", items |-> <<>>, completed |-> {}, pos |-> 0, type |-> "none"]

Top == stack[Len(stack)]

SetTop(f) == [stack EXCEPT ![Len(stack)] = f]

\* The innermost CommitNewItems returns true: its caller is CommitItems
\* (line 547) or the CommitNewItems that recursed (line 534).
ReturnTrue ==
    IF Len(stack) = 1
    THEN stack' = <<>> /\ pc' = "CI_true"
    ELSE stack' = [SubSeq(stack, 1, Len(stack) - 1) EXCEPT ![Len(stack) - 1].pc = "types"]
         /\ pc' = pc

\* The innermost CommitNewItems returns false: every CommitNewItems that
\* recursed returns false at once (line 535), down to CommitItems.
ReturnFalse == stack' = <<>> /\ pc' = "CI_false"

InCNI(label) == pc = "CommitNewItems" /\ stack # <<>> /\ Top.pc = label

\* Lines 400-440: collect the candidates, swap the unnamed list, return when
\* there is none, else append them to newItems and enqueue their Commit.
CNI_Collect ==
    /\ InCNI("collect")
    /\ LET items == CollectNamed(context) \o CollectUnnamed(context) IN
       /\ m_UnnamedItems' = KeptUnnamed(context)
       /\ IF items = <<>>
          THEN ReturnTrue /\ UNCHANGED <<queue, newItems>>
          ELSE /\ newItems' = newItems \o items
               /\ queue' = queue \cup {Task("Commit", items[n], "-", n) : n \in DOMAIN items}
               /\ stack' = SetTop([Top EXCEPT !.pc = "joinCommit", !.items = items])
               /\ pc' = pc
    /\ UNCHANGED <<m_Items, m_DefaultTemplates, m_IgnoredItems, m_Object,
                   m_ActivationContext, objVars, hist, rm, lockVars, reloadVars, running, upqExc,
                   result, context, idx, obsVars>>

\* Lines 442-445 without the Join.
CNI_JoinCommitNoJoin ==
    /\ InCNI("joinCommit")
    /\ IF upqExc THEN ReturnFalse
       ELSE stack' = SetTop([Top EXCEPT !.pc = "types"]) /\ pc' = pc
    /\ UNCHANGED <<regVars, objVars, hist, rm, lockVars, reloadVars, queue, running, upqExc, newItems,
                   result, context, idx, obsVars>>

\* Lines 442-445: Join, then return false on an exception.
CNI_JoinCommit ==
    /\ InCNI("joinCommit")
    /\ JoinDone
    /\ IF upqExc THEN ReturnFalse
       ELSE stack' = SetTop([Top EXCEPT !.pc = "types"]) /\ pc' = pc
    /\ UNCHANGED <<regVars, objVars, hist, rm, lockVars, reloadVars, queue, running, upqExc, newItems,
                   result, context, idx, obsVars>>

\* Lines 458-473: a type is processed when it is not completed and none of
\* its load dependencies among the config types is uncompleted.
Ready(f, k) ==
    /\ AllTypes[k] \notin f.completed
    /\ (GetLoadDependencies(AllTypes[k]) \cap Types) \subseteq f.completed

\* Lines 456-457: the for loop goes on after the last processed type; the
\* while loop starts it over.
NextTypeIdx(f) ==
    LET after == {k \in DOMAIN AllTypes : k > f.pos /\ Ready(f, k)}
        all == {k \in DOMAIN AllTypes : Ready(f, k)}
    IN IF after # {} THEN Min(after) ELSE Min(all)

\* Lines 456-506 and 539: return true when every type is completed, else
\* take the next type and enqueue OnAllConfigLoaded for its committed items.
CNI_NextType ==
    /\ InCNI("types")
    /\ IF Top.completed = Types
       THEN ReturnTrue /\ UNCHANGED queue
       ELSE LET k == NextTypeIdx(Top)
                T == AllTypes[k]
            IN /\ queue' = queue \cup {Task("OAL", Top.items[n], "-", n) :
                               n \in {m \in DOMAIN Top.items :
                                         /\ m_Object[Top.items[m]] # NoObj
                                         /\ m_Type(Top.items[m]) = T}}
               /\ stack' = SetTop([Top EXCEPT !.pc = "joinOAL", !.pos = k, !.type = T,
                                              !.completed = @ \cup {T}])
               /\ pc' = pc
    /\ UNCHANGED <<regVars, objVars, hist, rm, lockVars, reloadVars, running, upqExc, newItems,
                   result, context, idx, obsVars>>

\* CNI_JoinOAL without the Join of line 508.
CNI_JoinOALNoJoin ==
    /\ InCNI("joinOAL")
    /\ IF upqExc
       THEN ReturnFalse /\ UNCHANGED queue
       ELSE /\ queue' = queue \cup {Task("CCO", Top.items[n], Top.type, n) :
                            n \in {m \in DOMAIN Top.items :
                                      /\ m_Object[Top.items[m]] # NoObj
                                      /\ m_Type(Top.items[m]) \in GetLoadDependencies(Top.type)}}
            /\ stack' = SetTop([Top EXCEPT !.pc = "joinCCO"])
            /\ pc' = pc
    /\ UNCHANGED <<regVars, objVars, hist, rm, lockVars, reloadVars, running, upqExc, newItems,
                   result, context, idx, obsVars>>

\* Lines 508-527: Join, return false on an exception, else enqueue
\* CreateChildObjects(type) on the committed items of its load dependencies.
CNI_JoinOAL ==
    /\ InCNI("joinOAL")
    /\ JoinDone
    /\ IF upqExc
       THEN ReturnFalse /\ UNCHANGED queue
       ELSE /\ queue' = queue \cup {Task("CCO", Top.items[n], Top.type, n) :
                            n \in {m \in DOMAIN Top.items :
                                      /\ m_Object[Top.items[m]] # NoObj
                                      /\ m_Type(Top.items[m]) \in GetLoadDependencies(Top.type)}}
            /\ stack' = SetTop([Top EXCEPT !.pc = "joinCCO"])
            /\ pc' = pc
    /\ UNCHANGED <<regVars, objVars, hist, rm, lockVars, reloadVars, running, upqExc, newItems,
                   result, context, idx, obsVars>>

\* Lines 529-535 without the call of line 534.
CNI_JoinCCONoReentry ==
    /\ InCNI("joinCCO")
    /\ JoinDone
    /\ upqExc \/ Len(stack) < MaxDepth
    /\ IF upqExc
       THEN ReturnFalse
       ELSE stack' = SetTop([Top EXCEPT !.pc = "types"]) /\ pc' = pc
    /\ UNCHANGED <<regVars, objVars, hist, rm, lockVars, reloadVars, queue, running, upqExc, newItems,
                   result, context, idx, obsVars>>

\* Lines 529-534: Join, return false on an exception, else recurse.
CNI_JoinCCO ==
    /\ InCNI("joinCCO")
    /\ JoinDone
    /\ upqExc \/ Len(stack) < MaxDepth
    /\ IF upqExc
       THEN ReturnFalse
       ELSE stack' = Append(SetTop([Top EXCEPT !.pc = "afterRecurse"]), NewFrame) /\ pc' = pc
    /\ UNCHANGED <<regVars, objVars, hist, rm, lockVars, reloadVars, queue, running, upqExc, newItems,
                   result, context, idx, obsVars>>

\* Line 534 when the recursion is MaxDepth activations deep: the call stack
\* is exhausted and the process ends.
CNI_StackOverflow ==
    /\ InCNI("joinCCO")
    /\ JoinDone
    /\ ~upqExc
    /\ Len(stack) = MaxDepth
    /\ pc' = "crashed"
    /\ result' = "StackOverflow"
    /\ UNCHANGED <<regVars, objVars, hist, rm, lockVars, reloadVars, stack, queue, running, upqExc, newItems,
                   context, idx, obsVars>>

(***************************************************************************)
(* The tasks, executed by the work queue's threads.                        *)
(***************************************************************************)
StartTask ==
    \E t \in queue :
        /\ Cardinality(running) < NumWorkers
        /\ queue' = queue \ {t}
        /\ running' = running \cup {t}
        /\ IF t.kind = "OAL"
           THEN /\ oalStarted' = oalStarted \cup {t.item}
                /\ oalView' = [oalView EXCEPT ![t.item] = oalDone]
           ELSE UNCHANGED <<oalStarted, oalView>>
        /\ UNCHANGED <<regVars, objVars, hist, rm, lockVars, reloadVars, pc, stack, upqExc, newItems,
                       result, context, idx, commitDone, oalDone, modAttrs>>

\* Lines 437-439: item->Commit(discard)
FinishCommit ==
    \E t \in running :
        /\ t.kind = "Commit"
        /\ running' = running \ {t}
        /\ Commit(t.item)
        /\ upqExc' = (upqExc \/ CommitOutcome(t.item) = "throw")
        /\ commitDone' = commitDone \cup {t.item}
        /\ UNCHANGED <<m_Items, m_DefaultTemplates, m_UnnamedItems, m_ActivationContext,
                       hist, rm, lockVars, reloadVars, pc, stack, queue, newItems, result, context, idx,
                       oalStarted, oalDone, oalView, modAttrs>>

\* FinishOAL without the Unregister of line 490.
FinishOALKeepsItem ==
    \E t \in running :
        /\ t.kind = "OAL"
        /\ running' = running \ {t}
        /\ oalDone' = oalDone \cup {t.item}
        /\ IF ItemDecl[t.item].oal = "throw"
           THEN IF IsIgnoreOnError(t.item)
                THEN /\ m_IgnoredItems' = Append(m_IgnoredItems, ItemDecl[t.item].path)
                     /\ UNCHANGED <<m_Items, m_DefaultTemplates, m_UnnamedItems,
                                    m_Object, objectMap, upqExc>>
                ELSE /\ upqExc' = TRUE
                     /\ UNCHANGED <<m_Items, m_DefaultTemplates, m_UnnamedItems,
                                    m_IgnoredItems, m_Object, objectMap>>
           ELSE UNCHANGED <<m_Items, m_DefaultTemplates, m_UnnamedItems,
                            m_IgnoredItems, m_Object, objectMap, upqExc>>
        /\ UNCHANGED <<m_ActivationContext, objs, written, hist, rm, lockVars, reloadVars, pc, stack, queue,
                       newItems, result, context, idx, commitDone, oalStarted, oalView, modAttrs>>

\* Lines 482-502: OnAllConfigLoaded; when it throws, an ignore-on-error item
\* is unregistered and its path recorded, any other item's exception goes to
\* the queue.
FinishOAL ==
    \E t \in running :
        /\ t.kind = "OAL"
        /\ running' = running \ {t}
        /\ oalDone' = oalDone \cup {t.item}
        /\ IF ItemDecl[t.item].oal = "throw"
           THEN IF IsIgnoreOnError(t.item)
                THEN /\ Unregister(t.item)
                     /\ m_IgnoredItems' = Append(m_IgnoredItems, ItemDecl[t.item].path)
                     /\ UNCHANGED upqExc
                ELSE /\ upqExc' = TRUE
                     /\ UNCHANGED <<m_Items, m_DefaultTemplates, m_UnnamedItems,
                                    m_IgnoredItems, m_Object, objectMap>>
           ELSE UNCHANGED <<m_Items, m_DefaultTemplates, m_UnnamedItems,
                            m_IgnoredItems, m_Object, objectMap, upqExc>>
        /\ UNCHANGED <<m_ActivationContext, objs, written, hist, rm, lockVars, reloadVars, pc, stack, queue,
                       newItems, result, context, idx, commitDone, oalStarted, oalView, modAttrs>>

\* The items CreateChildObjects may register.
ChildItems == {6}

\* Lines 521-524: CreateChildObjects(type) under the item's activation
\* context.  The hook (external) registers a new item, or none, or throws.
FinishCCO ==
    \E t \in running :
        /\ t.kind = "CCO"
        /\ running' = running \ {t}
        /\ \E child \in ChildItems \cup {NoItem} : \E throws \in BOOLEAN :
              /\ child # NoItem => ~throws
              /\ IF child = NoItem
                 THEN /\ upqExc' = (upqExc \/ throws)
                      /\ UNCHANGED <<m_Items, m_DefaultTemplates, m_UnnamedItems,
                                     m_ActivationContext, hist>>
                 ELSE /\ Register(child, m_ActivationContext[t.item])
                      /\ upqExc' = (upqExc \/ RegisterThrows(child))
                      /\ LogRegister(child)
        /\ UNCHANGED <<m_IgnoredItems, m_Object, objVars, rm, lockVars, reloadVars, pc, stack, queue,
                       newItems, result, context, idx, obsVars>>

(***************************************************************************)
(* ConfigItem::CommitItems                                                 *)
(***************************************************************************)

\* Line 547: the call of CommitNewItems.
CI_Start ==
    /\ pc = "CI_call"
    /\ pc' = "CommitNewItems"
    /\ stack' = <<NewFrame>>
    /\ UNCHANGED <<regVars, objVars, hist, rm, lockVars, reloadVars, queue, running, upqExc, newItems,
                   result, context, idx, obsVars>>

\* CI_UnregisterNext without line 551: the item is left as it is.
CI_UnregisterNextSkips ==
    /\ pc = "CI_false"
    /\ idx <= Len(newItems)
    /\ idx' = idx + 1
    /\ UNCHANGED <<regVars, objVars, hist, rm, lockVars, reloadVars, pc,
                   stack, queue, running, upqExc, newItems, result, context, obsVars>>

\* Lines 550-552: CommitNewItems returned false; unregister the next item.
CI_UnregisterNext ==
    /\ pc = "CI_false"
    /\ idx <= Len(newItems)
    /\ Unregister(newItems[idx])
    /\ idx' = idx + 1
    /\ UNCHANGED <<m_IgnoredItems, m_ActivationContext, objs, written, hist, rm, lockVars, reloadVars, pc,
                   stack, queue, running, upqExc, newItems, result, context, obsVars>>

\* Line 554
CI_ReturnFalse ==
    /\ pc = "CI_false"
    /\ idx > Len(newItems)
    /\ pc' = "done"
    /\ result' = "false"
    /\ UNCHANGED <<regVars, objVars, hist, rm, lockVars, reloadVars, stack, queue, running, upqExc,
                   newItems, context, idx, obsVars>>

\* Lines 557-576
CI_ReturnTrue ==
    /\ pc = "CI_true"
    /\ pc' = "done"
    /\ result' = "true"
    /\ UNCHANGED <<regVars, objVars, hist, rm, lockVars, reloadVars, stack, queue, running, upqExc,
                   newItems, context, idx, obsVars>>

(***************************************************************************)
(* SpecCommit: the compiler has registered up to MaxStart of StartItems,   *)
(* under context 1 or, some of them, under context 2; CommitItems(1, upq,  *)
(* newItems) runs.                                                         *)
(***************************************************************************)
StartItems == {1, 2, 4, 5, 11, 12, 13, 14}

\* The registry after Register has been called for the items of q, in the
\* order of q, on an empty registry.
NamedIndexOf(q) ==
    [k \in Keys |->
        IF \E n \in DOMAIN q : ~RegistersUnnamed(q[n]) /\ Key(q[n]) = k
        THEN q[CHOOSE n \in DOMAIN q : ~RegistersUnnamed(q[n]) /\ Key(q[n]) = k]
        ELSE NoItem]

DefaultTemplatesOf(q) ==
    [k \in Keys |->
        IF NamedIndexOf(q)[k] # NoItem /\ IsDefaultTemplate(NamedIndexOf(q)[k])
        THEN NamedIndexOf(q)[k] ELSE NoItem]

UnnamedOf(q) == SelectSeq(q, RegistersUnnamed)

IndicesOf(q) == <<NamedIndexOf(q), UnnamedOf(q), DefaultTemplatesOf(q)>>

RegisterCall(i, snap) == [op |-> "Register", item |-> i, res |-> "ok", snap |-> snap]

\* The last two calls of the compiler when it has registered q.
LastCallsOf(q) ==
    IF Len(q) = 0 THEN <<NoCall, NoCall>>
    ELSE IF Len(q) = 1 THEN <<NoCall, RegisterCall(q[1], IndicesOf(q))>>
    ELSE <<RegisterCall(q[Len(q) - 1], IndicesOf(SubSeq(q, 1, Len(q) - 1))),
           RegisterCall(q[Len(q)], IndicesOf(q))>>

\* The items that may have been registered under another context than the
\* one CommitItems is called for.
OtherContextItems == {2, 4}

\* The orders in which the compiler may have registered some of the items
\* of S, each once.
OrdersOf(S) ==
    {q \in UNION {[1..n -> S] : n \in 0..MaxStart} :
        \A n \in DOMAIN q : \A m \in DOMAIN q : q[n] = q[m] => n = m}

StartOrders == OrdersOf(StartItems)

\* The state in which CommitItems is called after the compiler registered
\* the items of one of the given orders.
InitCommitFrom(orders) ==
    /\ \E q \in orders :
          /\ m_Items = NamedIndexOf(q)
          /\ m_DefaultTemplates = DefaultTemplatesOf(q)
          /\ m_UnnamedItems = UnnamedOf(q)
          /\ \E other \in SUBSET (OtherContextItems \cap Range(q)) :
                m_ActivationContext = [i \in Items |-> IF i \in other THEN 2
                                                       ELSE IF InSeq(q, i) THEN 1
                                                       ELSE NoCtx]
          /\ hist = LastCallsOf(q)
    /\ m_IgnoredItems = <<>>
    /\ m_Object = [i \in Items |-> NoObj]
    /\ objs = <<>>
    /\ objectMap = [k \in ObjKeys |-> NoObj]
    /\ written = <<>>
    /\ InitPipe("CI_call")
    /\ rm = NoRm

InitCommit == InitCommitFrom(StartOrders)

NextCommit ==
    \/ CI_Start
    \/ CNI_Collect
    \/ CNI_JoinCommit
    \/ CNI_NextType
    \/ CNI_JoinOAL
    \/ CNI_JoinCCO
    \/ CNI_StackOverflow
    \/ StartTask
    \/ FinishCommit
    \/ FinishOAL
    \/ FinishCCO
    \/ CI_UnregisterNext
    \/ CI_ReturnFalse
    \/ CI_ReturnTrue

SpecCommit == InitCommit /\ [][NextCommit]_vars

----------------------------------------------------------------------------
(***************************************************************************)
(* Properties of the commit pipeline, checked under SpecCommit.            *)
(***************************************************************************)

\* C1: in a CommitItems run that returned true, for every two committed
\* objects a and b where the type of b is a load dependency of the type of
\* a, OnAllConfigLoaded of b had completed when OnAllConfigLoaded of a
\* started (items committed in the re-entries included).
C1_DependencyLoadedBeforeDependent ==
    result = "true" =>
        \A a \in oalStarted : \A b \in oalStarted :
            m_Type(b) \in GetLoadDependencies(m_Type(a)) => b \in oalView[a]

\* C2 as stated: once OnAllConfigLoaded has been invoked on any object, no
\* item's Commit is still pending or running in this CommitItems call.
C2_AllCommitsBeforeAnyOAL ==
    oalStarted # {} => \A t \in queue \cup running : t.kind # "Commit"

\* C2 amended: while OnAllConfigLoaded is pending or running for an item
\* collected by one CommitNewItems invocation, every item collected by that
\* invocation has finished Commit.
C2_InvocationCommitsBeforeItsOAL ==
    (\E t \in queue \cup running : t.kind = "OAL") =>
        /\ \A t \in queue \cup running : t.kind # "Commit"
        /\ \A n \in DOMAIN Top.items : Top.items[n] \in commitDone

\* OnAllConfigLoaded runs in a re-entry, for an invocation that collected
\* the child item after the outer invocation's OnAllConfigLoaded calls.
C2_Witness ==
    /\ Len(stack) >= 2
    /\ \E t \in running : t.kind = "OAL" /\ t.item \in ChildItems
    /\ \A n \in DOMAIN Top.items : Top.items[n] \in commitDone

\* C4: when a registered, non-abstract, named item with ignore-on-error has
\* failed in Commit and no task raised an exception, CommitItems ends by
\* returning true with the item's path in the ignored list and no object
\* attached to the item.
C4_IgnoredCommitFailureReturnsTrue ==
    \A i \in commitDone :
        (/\ pc \in {"done", "crashed"}
         /\ ~upqExc
         /\ ~RegistersUnnamed(i)
         /\ CommitOutcome(i) = "ignored")
        => /\ result = "true"
           /\ InSeq(m_IgnoredItems, ItemDecl[i].path)
           /\ m_Object[i] = NoObj

----------------------------------------------------------------------------
(***************************************************************************)
(* Commit and the lookup, checked under SpecReg.                            *)
(***************************************************************************)
CommitReturnedObject(i) ==
    hist[2].op = "Commit" /\ hist[2].item = i /\ hist[2].res = "object"

LookupYieldsObjectOf(i) ==
    /\ GetByTypeAndName(m_Type(i), m_Name(i)) # NoItem
    /\ m_Object[i] # NoObj
    /\ m_Object[GetByTypeAndName(m_Type(i), m_Name(i))] = m_Object[i]

\* C5 as stated: right after Commit returned an object for item i, of any
\* type, GetByTypeAndName(i.type, i.name) is an item with that object.
C5_LookupAfterCommit ==
    \A i \in Items : CommitReturnedObject(i) => LookupYieldsObjectOf(i)

\* C5 amended: the same for a registered item of a type without a name
\* composer.
C5_LookupAfterCommitOfNamedItem ==
    \A i \in Items :
        (CommitReturnedObject(i) /\ IsRegistered(i) /\ ~HasNameComposer(m_Type(i)))
        => LookupYieldsObjectOf(i)

C5_Witness ==
    /\ CommitReturnedObject(1)
    /\ IsRegistered(1)
    /\ GetByTypeAndName("Host", "a") = 1
    /\ m_Object[1] # NoObj

----------------------------------------------------------------------------
(***************************************************************************)
(* ConfigItem::ActivateItems.  The static mutex of lines 581-582 admits    *)
(* one caller at a time; pc is that caller, who holds mtx from line 582    *)
(* until ActivateItems returns or is left by an exception.                 *)
(***************************************************************************)

\* The thread that runs the pipeline (CommitItems, ActivateItems,
\* ReloadObject) in the specifications with one caller.
PipelineThread == 1

\* Lines 584-600: what the restore of the modified attributes may do.  With
\* the flag unset nothing ("off"); else the file is absent, or it is
\* compiled and evaluated ("restored"), or the evaluation throws and the
\* exception is logged (lines 590-595), or ConfigCompiler::CompileFile
\* (external, line 587, outside the try block) throws.
ModAttrOutcomes(withModAttrs) ==
    IF withModAttrs
    THEN {"absent", "restored", "evalFailed", "compileFailed"}
    ELSE {"off"}

\* Lines 584-616: restore the modified attributes, then enqueue PreActivate
\* for every item's object that is not active.  An exception of line 587
\* leaves ActivateItems at once.
AI_Start(withModAttrs) ==
    /\ pc = "AI_call"
    /\ mtx = NoCaller
    /\ \E outcome \in ModAttrOutcomes(withModAttrs) :
          /\ modAttrs' = outcome
          /\ IF outcome = "compileFailed"
             THEN /\ pc' = "done"
                  /\ result' = "exception"
                  /\ mtx' = NoCaller
                  /\ UNCHANGED <<queue, objs>>
             ELSE /\ pc' = "AI_joinPre"
                  /\ mtx' = PipelineThread
                  /\ UNCHANGED result
                  /\ LET todo == {n \in DOMAIN newItems :
                                     /\ m_Object[newItems[n]] # NoObj
                                     /\ ~objs[m_Object[newItems[n]]].active}
                     IN /\ queue' = queue \cup {Task("PreActivate", newItems[n], "-", n) :
                                                   n \in todo}
                        /\ objs' = [o \in DOMAIN objs |->
                                      IF \E n \in todo : m_Object[newItems[n]] = o
                                      THEN [objs[o] EXCEPT !.pre = "called"]
                                      ELSE objs[o]]
    /\ UNCHANGED <<regVars, objectMap, written, hist, rm, callerPc, reloadVars, stack, running, upqExc,
                   newItems, context, idx, commitDone, oalStarted, oalDone, oalView>>

\* Lines 628-639: enqueue Activate for every item's object.
EnqueueActivate ==
    queue' = queue \cup {Task("Activate", newItems[n], "-", n) :
                            n \in {m \in DOMAIN newItems : m_Object[newItems[m]] # NoObj}}

\* Lines 618-639 without the Join.
AI_JoinPreNoJoin ==
    /\ pc = "AI_joinPre"
    /\ IF upqExc
       THEN pc' = "done" /\ result' = "false" /\ mtx' = NoCaller /\ UNCHANGED queue
       ELSE pc' = "AI_joinAct" /\ EnqueueActivate /\ UNCHANGED <<result, mtx>>
    /\ UNCHANGED <<regVars, objVars, hist, rm, callerPc, reloadVars, stack, running, upqExc,
                   newItems, context, idx, obsVars>>

\* Lines 618-639: Join, return false on an exception, else enqueue Activate.
AI_JoinPre ==
    /\ pc = "AI_joinPre"
    /\ JoinDone
    /\ IF upqExc
       THEN pc' = "done" /\ result' = "false" /\ mtx' = NoCaller /\ UNCHANGED queue
       ELSE pc' = "AI_joinAct" /\ EnqueueActivate /\ UNCHANGED <<result, mtx>>
    /\ UNCHANGED <<regVars, objVars, hist, rm, callerPc, reloadVars, stack, running, upqExc,
                   newItems, context, idx, obsVars>>

\* Lines 641-662
AI_JoinAct ==
    /\ pc = "AI_joinAct"
    /\ JoinDone
    /\ pc' = "done"
    /\ mtx' = NoCaller
    /\ result' = IF upqExc THEN "false" ELSE "true"
    /\ UNCHANGED <<regVars, objVars, hist, rm, callerPc, reloadVars, stack, queue, running, upqExc,
                   newItems, context, idx, obsVars>>

\* Line 615: ConfigObject::PreActivate (external) returns or throws.
FinishPreActivate ==
    \E t \in running : \E throws \in BOOLEAN :
        /\ t.kind = "PreActivate"
        /\ running' = running \ {t}
        /\ objs' = [objs EXCEPT ![m_Object[t.item]].pre = IF throws THEN "threw" ELSE "done"]
        /\ upqExc' = (upqExc \/ throws)
        /\ UNCHANGED <<regVars, objectMap, written, hist, rm, lockVars, reloadVars, pc, stack, queue,
                       newItems, result, context, idx, obsVars>>

\* Line 638: ConfigObject::Activate (external) makes the object active, or
\* throws.
FinishActivate ==
    \E t \in running : \E throws \in BOOLEAN :
        /\ t.kind = "Activate"
        /\ running' = running \ {t}
        /\ objs' = [objs EXCEPT ![m_Object[t.item]].active = (@ \/ ~throws)]
        /\ upqExc' = (upqExc \/ throws)
        /\ UNCHANGED <<regVars, objectMap, written, hist, rm, lockVars, reloadVars, pc, stack, queue,
                       newItems, result, context, idx, obsVars>>

(***************************************************************************)
(* SpecActivate: ActivateItems(upq, newItems) on a committed batch: hosts  *)
(* "a" and "c" and service "b", each active already or not, and the        *)
(* ignored host "bad", which has no object.                                *)
(***************************************************************************)
BatchItems == <<1, 2, 6, 5>>

Committed == <<1, 2, 6>>

InitActivate ==
    /\ m_Items = [k \in Keys |-> IF k = Key(1) THEN 1
                                 ELSE IF k = Key(6) THEN 6
                                 ELSE IF k = Key(5) THEN 5 ELSE NoItem]
    /\ m_DefaultTemplates = [k \in Keys |-> NoItem]
    /\ m_UnnamedItems = <<>>
    /\ m_IgnoredItems = <<ItemDecl[5].path>>
    /\ m_ActivationContext = [i \in Items |-> IF InSeq(BatchItems, i) THEN 1 ELSE NoCtx]
    /\ m_Object = [i \in Items |-> IF InSeq(Committed, i)
                                   THEN CHOOSE n \in DOMAIN Committed : Committed[n] = i
                                   ELSE NoObj]
    /\ \E act \in [DOMAIN Committed -> BOOLEAN] :
          objs = [n \in DOMAIN Committed |->
                     [NewObject(Committed[n]) EXCEPT !.active = act[n]]]
    /\ objectMap = [k \in ObjKeys |->
                     IF \E n \in DOMAIN Committed :
                            k = <<m_Type(Committed[n]), ItemDecl[Committed[n]].oname>>
                     THEN CHOOSE n \in DOMAIN Committed :
                            k = <<m_Type(Committed[n]), ItemDecl[Committed[n]].oname>>
                     ELSE NoObj]
    /\ written = Committed
    /\ pc = "AI_call"
    /\ deletedObjects = <<>>
    /\ rl = NoReload
    /\ callerPc = [c \in Callers |-> "idle"]
    /\ mtx = NoCaller
    /\ stack = <<>>
    /\ queue = {}
    /\ running = {}
    /\ upqExc = FALSE
    /\ newItems = BatchItems
    /\ result = "none"
    /\ context = 1
    /\ idx = 1
    /\ commitDone = {}
    /\ oalStarted = {}
    /\ oalDone = {}
    /\ oalView = [i \in Items |-> {}]
    /\ modAttrs = "off"
    /\ hist = <<NoCall, NoCall>>
    /\ rm = NoRm

NextActivate ==
    \/ \E withModAttrs \in BOOLEAN : AI_Start(withModAttrs)
    \/ AI_JoinPre
    \/ AI_JoinAct
    \/ StartTask
    \/ FinishPreActivate
    \/ FinishActivate

SpecActivate == InitActivate /\ [][NextActivate]_vars

\* C3: while the Activate call of any object of the batch is running, no
\* PreActivate call of the batch is pending or running: every PreActivate
\* that ActivateItems enqueued has completed.
C3_PreActivateBeforeActivate ==
    (\E t \in running : t.kind = "Activate") =>
        /\ \A t \in queue \cup running : t.kind # "PreActivate"
        /\ \A o \in DOMAIN objs : objs[o].pre # "called"

\* Two Activate calls run while the PreActivate calls of three objects
\* have completed.
C3_Witness ==
    /\ Cardinality({t \in running : t.kind = "Activate"}) >= 2
    /\ Cardinality({o \in DOMAIN objs : objs[o].pre = "done"}) >= 3

----------------------------------------------------------------------------
(***************************************************************************)
(* ConfigItem::ReloadObject(object, destroyFirst, callback) on the live    *)
(* host "a", the first object.                                             *)
(***************************************************************************)
Target == 1

TargetKey == <<"Host", "a">>

\* DependencyGraph::GetParents (external): the service "a!b" depends on the
\* host "a", and the host "c" depends on the service "a!b".
GetParents(o) ==
    {p \in DOMAIN objs :
        \/ /\ objs[o].type = "Host" /\ objs[o].name = "a"
           /\ objs[p].type = "Service" /\ objs[p].name = "a!b"
        \/ /\ objs[o].type = "Service" /\ objs[o].name = "a!b"
           /\ objs[p].type = "Host" /\ objs[p].name = "c"}

RECURSIVE SeqOfSet(_)
SeqOfSet(S) == IF S = {} THEN <<>> ELSE <<Min(S)>> \o SeqOfSet(S \ {Min(S)})

\* DeleteObjectHelper, lines 763-776: the order in which the objects are
\* appended to deletedObjects.
RECURSIVE Walk(_)
RECURSIVE WalkAll(_)
Walk(o) == <<o>> \o WalkAll(SeqOfSet(GetParents(o)))

WalkAll(q) == IF q = <<>> THEN <<>> ELSE Walk(Head(q)) \o WalkAll(Tail(q))

\* The catch block of ReloadObject (lines 905-909) or its last line (911)
\* calls RestoreObjectsHelper, which opens an activation scope (line 796).
EnterRestore(recoverApply, cb) ==
    /\ pc' = "RO_restore"
    /\ rl' = [rl EXCEPT !.recoverApply = recoverApply, !.cb = cb, !.phase = "restore"]
    /\ context' = context + 1
    /\ idx' = 1

\* Lines 855-856 and 763-765: the objects to delete, each with the item
\* GetByTypeAndName finds for it.
RO_Start ==
    /\ pc = "idle"
    /\ \E destroyFirst \in BOOLEAN :
          rl' = [rl EXCEPT !.destroyFirst = destroyFirst, !.phase = "delete"]
    /\ deletedObjects' = [n \in DOMAIN Walk(Target) |->
                            [Object |-> Walk(Target)[n],
                             Item |-> GetByTypeAndName(objs[Walk(Target)[n]].type,
                                                       objs[Walk(Target)[n]].name)]]
    /\ idx' = Len(Walk(Target))
    /\ pc' = "RO_delete"
    /\ UNCHANGED <<regVars, objVars, hist, rm, lockVars, stack, queue, running, upqExc,
                   newItems, result, context, obsVars>>

\* RO_DeleteNext without the Deactivate of line 786.
RO_DeleteNextNoDeactivate ==
    /\ pc = "RO_delete"
    /\ idx >= 1
    /\ LET d == deletedObjects[idx] IN
       /\ objs' = [objs EXCEPT ![d.Object].deleted = TRUE]
       /\ IF d.Item # NoItem
          THEN Unregister(d.Item)
          ELSE /\ objectMap' = ObjectUnregistered(objectMap, d.Object)
               /\ UNCHANGED <<m_Items, m_DefaultTemplates, m_UnnamedItems, m_Object>>
    /\ idx' = idx - 1
    /\ UNCHANGED <<m_IgnoredItems, m_ActivationContext, written, hist, rm, lockVars, reloadVars,
                   pc, stack, queue, running, upqExc, newItems, result, context, obsVars>>

\* Lines 778-791, deepest first: mark the object deleted, deactivate it,
\* unregister its item, or the bare object when it has none.
RO_DeleteNext ==
    /\ pc = "RO_delete"
    /\ idx >= 1
    /\ LET d == deletedObjects[idx] IN
       /\ objs' = [objs EXCEPT ![d.Object].deleted = TRUE, ![d.Object].active = FALSE]
       /\ IF d.Item # NoItem
          THEN Unregister(d.Item)
          ELSE /\ objectMap' = ObjectUnregistered(objectMap, d.Object)
               /\ UNCHANGED <<m_Items, m_DefaultTemplates, m_UnnamedItems, m_Object>>
    /\ idx' = idx - 1
    /\ UNCHANGED <<m_IgnoredItems, m_ActivationContext, written, hist, rm, lockVars, reloadVars,
                   pc, stack, queue, running, upqExc, newItems, result, context, obsVars>>

\* Lines 858-898 and 667: RunWithActivationContext opens an activation scope
\* and invokes its function.
RO_Rebuild ==
    /\ pc = "RO_delete"
    /\ idx = 0
    /\ pc' = IF rl.destroyFirst THEN "RO_callback" ELSE "RO_update"
    /\ rl' = [rl EXCEPT !.phase = "rebuild"]
    /\ context' = context + 1
    /\ idx' = 1
    /\ UNCHANGED <<regVars, objVars, hist, rm, lockVars, deletedObjects, stack, queue, running,
                   upqExc, newItems, result, obsVars>>

\* The item updateObjectFunc compiles for (type, name) of the object: its
\* expression ends with the callback, which returns or throws when Commit
\* evaluates it.
EphemeralItems == {7, 9}

\* Lines 860-888 and 678-685: updateObjectFunc registers the item;
\* CommitItems follows.
RO_UpdateObject ==
    /\ pc = "RO_update"
    /\ \E e \in EphemeralItems :
          /\ Register(e, context)
          /\ IF RegisterThrows(e)
             THEN EnterRestore(TRUE, "none")
             ELSE /\ pc' = "CI_call"
                  /\ rl' = [rl EXCEPT !.phase = "commit",
                                      !.cb = IF ItemDecl[e].fails = "none"
                                             THEN "returns" ELSE "throws"]
                  /\ UNCHANGED <<context, idx>>
          /\ LogRegister(e)
    /\ UNCHANGED <<m_IgnoredItems, m_Object, objVars, rm, lockVars, deletedObjects, stack,
                   queue, running, upqExc, newItems, result, obsVars>>

\* The items a callback may register.
CallbackItems == {2, 3, 7, 8}

\* Line 678 with destroyFirst: the callback registers an item; a
\* DuplicateDefinition leaves the callback as its exception.
CB_Register(i) ==
    /\ pc = "RO_callback"
    /\ m_Object[i] = NoObj
    /\ m_ActivationContext[i] # context
    /\ \A j \in Items : (m_ActivationContext[j] = context /\ ~IsAbstract(i) /\ ~IsAbstract(j))
                        => ItemDecl[j].oname # ItemDecl[i].oname \/ m_Type(j) # m_Type(i)
    /\ Len(m_UnnamedItems) < MaxUnnamed
    /\ Register(i, context)
    /\ IF RegisterThrows(i)
       THEN EnterRestore(TRUE, "throws")
       ELSE UNCHANGED <<pc, rl, context, idx>>
    /\ LogRegister(i)
    /\ UNCHANGED <<m_IgnoredItems, m_Object, objVars, rm, lockVars, deletedObjects, stack,
                   queue, running, upqExc, newItems, result, obsVars>>

\* Line 678 with destroyFirst: the callback throws.
CB_Throw ==
    /\ pc = "RO_callback"
    /\ EnterRestore(TRUE, "throws")
    /\ UNCHANGED <<regVars, objVars, hist, rm, lockVars, deletedObjects, stack, queue, running,
                   upqExc, newItems, result, obsVars>>

\* Lines 678-685 with destroyFirst: the callback returns; CommitItems
\* follows.
CB_Return ==
    /\ pc = "RO_callback"
    /\ pc' = "CI_call"
    /\ rl' = [rl EXCEPT !.phase = "commit", !.cb = "returns"]
    /\ UNCHANGED <<regVars, objVars, hist, rm, lockVars, deletedObjects, stack, queue, running,
                   upqExc, newItems, result, context, idx, obsVars>>

\* Lines 685-688: RunWithActivationContext returns false when CommitItems
\* did, else calls ActivateItems.
RWAC_AfterCommit ==
    /\ pc = "done"
    /\ rl.phase = "commit"
    /\ IF result = "true"
       THEN pc' = "AI_call" /\ rl' = [rl EXCEPT !.phase = "activate"]
       ELSE pc' = "RO_verify" /\ rl' = [rl EXCEPT !.phase = "verify"]
    /\ UNCHANGED <<regVars, objVars, hist, rm, lockVars, deletedObjects, stack, queue, running,
                   upqExc, newItems, result, context, idx, obsVars>>

\* Lines 688-691: RunWithActivationContext returns what ActivateItems did.
RWAC_AfterActivate ==
    /\ pc = "done"
    /\ rl.phase = "activate"
    /\ pc' = "RO_verify"
    /\ rl' = [rl EXCEPT !.phase = "verify"]
    /\ UNCHANGED <<regVars, objVars, hist, rm, lockVars, deletedObjects, stack, queue, running,
                   upqExc, newItems, result, context, idx, obsVars>>

\* Lines 900-911: no object under (type, name) raises "Callback failed to
\* re-create the object", caught at line 906.
RO_Verify ==
    /\ pc = "RO_verify"
    /\ EnterRestore(objectMap[TargetKey] = NoObj, rl.cb)
    /\ UNCHANGED <<regVars, objVars, hist, rm, lockVars, deletedObjects, stack, queue, running,
                   upqExc, newItems, result, obsVars>>

\* Line 810 with the objects' state left alone.
RestoreStateNot(os, old, new) == os

\* Line 810: Deserialize(newObject, Serialize(deletedObject, FAState), false,
\* FAState) gives the new object the FAState field of the deleted one.
RestoreState(os, old, new) == [os EXCEPT ![new].s = os[old].s]

\* Lines 798-828: one iteration of RestoreObjectsHelper's loop.
RestoreNext ==
    /\ pc = "RO_restore"
    /\ idx <= Len(deletedObjects)
    /\ LET d == deletedObjects[idx]
           old == d.Object
           new == objectMap[ObjKey(old)]
       IN IF new # NoObj
          THEN /\ objs' = RestoreState(objs, old, new)
               /\ idx' = idx + 1
               /\ UNCHANGED <<m_Items, m_DefaultTemplates, m_UnnamedItems,
                              m_ActivationContext, objectMap, pc, result>>
          ELSE IF rl.recoverApply \/ objs[old].creationType = "object"
          THEN /\ IF d.Item # NoItem
                  THEN Register(d.Item, context)
                  ELSE UNCHANGED <<m_Items, m_DefaultTemplates, m_UnnamedItems,
                                   m_ActivationContext>>
               /\ IF d.Item # NoItem /\ RegisterThrows(d.Item)
                  THEN /\ objs' = [objs EXCEPT ![old].deleted = FALSE]
                       /\ pc' = "RO_done"
                       /\ result' = "DuplicateDefinition"
                       /\ UNCHANGED <<objectMap, idx>>
                  ELSE /\ objs' = [objs EXCEPT ![old].deleted = FALSE,
                                               ![old].active = TRUE,
                                               ![old].pre = "done"]
                       /\ objectMap' = [objectMap EXCEPT ![ObjKey(old)] = old]
                       /\ idx' = idx + 1
                       /\ UNCHANGED <<pc, result>>
          ELSE /\ idx' = idx + 1
               /\ UNCHANGED <<m_Items, m_DefaultTemplates, m_UnnamedItems,
                              m_ActivationContext, objs, objectMap, pc, result>>
    /\ UNCHANGED <<m_IgnoredItems, m_Object, written, hist, rm, lockVars, reloadVars, stack, queue,
                   running, upqExc, newItems, context, obsVars>>

\* Lines 908 and 911-912: ReloadObject rethrows after a restore with
\* recoverApply, else returns.
RO_End ==
    /\ pc = "RO_restore"
    /\ idx > Len(deletedObjects)
    /\ pc' = "RO_done"
    /\ result' = IF rl.recoverApply THEN "rethrown" ELSE "returned"
    /\ UNCHANGED <<regVars, objVars, hist, rm, lockVars, reloadVars, stack, queue, running,
                   upqExc, newItems, context, idx, obsVars>>

(***************************************************************************)
(* SpecReload: the host "a" is live with state s = 7, alone or with the    *)
(* live service "a!b" (s = 5) made by an apply rule or by an object        *)
(* declaration, and with or without the live host "c" (s = 3) that depends *)
(* on the service; ReloadObject runs on the host "a".                      *)
(***************************************************************************)
LiveObject(i, sv) == [NewObject(i) EXCEPT !.s = sv, !.active = TRUE, !.pre = "done"]

\* The item of the live host "c".
Dependent == 15

InitReload ==
    /\ \E P \in {NoItem, 2, 8} : \E G \in IF P = NoItem THEN {NoItem} ELSE {NoItem, Dependent} :
          /\ m_Object = [i \in Items |-> IF i = 1 THEN 1
                                         ELSE IF i = P THEN 2
                                         ELSE IF i = G THEN 3 ELSE NoObj]
          /\ m_ActivationContext = [i \in Items |-> IF i \in {1, P, G} THEN 1 ELSE NoCtx]
          /\ objs = IF P = NoItem THEN <<LiveObject(1, 7)>>
                    ELSE IF G = NoItem THEN <<LiveObject(1, 7), LiveObject(P, 5)>>
                    ELSE <<LiveObject(1, 7), LiveObject(P, 5), LiveObject(G, 3)>>
          /\ objectMap = [k \in ObjKeys |->
                            IF k = TargetKey THEN 1
                            ELSE IF P # NoItem /\ k = <<"Service", "a!b">> THEN 2
                            ELSE IF G # NoItem /\ k = <<"Host", "c">> THEN 3
                            ELSE NoObj]
          /\ written = IF P = NoItem THEN <<1>>
                       ELSE IF G = NoItem THEN <<1, P>> ELSE <<1, P, G>>
          /\ m_Items = [k \in Keys |-> IF k = Key(1) THEN 1
                                       ELSE IF G # NoItem /\ k = Key(G) THEN G
                                       ELSE NoItem]
    /\ m_DefaultTemplates = [k \in Keys |-> NoItem]
    /\ m_UnnamedItems = <<>>
    /\ m_IgnoredItems = <<>>
    /\ InitPipe("idle")
    /\ hist = <<NoCall, NoCall>>
    /\ rm = NoRm

NextReload ==
    \/ RO_Start
    \/ RO_DeleteNext
    \/ RO_Rebuild
    \/ RO_UpdateObject
    \/ \E i \in CallbackItems : CB_Register(i)
    \/ CB_Throw
    \/ CB_Return
    \/ CI_Start
    \/ CNI_Collect
    \/ CNI_JoinCommit
    \/ CNI_NextType
    \/ CNI_JoinOAL
    \/ CNI_JoinCCO
    \/ StartTask
    \/ FinishCommit
    \/ FinishOAL
    \/ FinishCCO
    \/ CI_UnregisterNext
    \/ CI_ReturnFalse
    \/ CI_ReturnTrue
    \/ RWAC_AfterCommit
    \/ AI_Start(FALSE)
    \/ AI_JoinPre
    \/ AI_JoinAct
    \/ FinishPreActivate
    \/ FinishActivate
    \/ RWAC_AfterActivate
    \/ RO_Verify
    \/ RestoreNext
    \/ RO_End

SpecReload == InitReload /\ [][NextReload]_vars

\* C7: once a ReloadObject whose callback threw has finished, the original
\* object is registered under (type, name) again with its FAConfig field
\* unchanged, is active and has ConfigObjectDeleted = false.
C7_RollbackRestoresOriginal ==
    (pc = "RO_done" /\ rl.cb = "throws") =>
        /\ objectMap[TargetKey] = Target
        /\ objs[Target].x = ItemDecl[1].x
        /\ objs[Target].active
        /\ ~objs[Target].deleted

----------------------------------------------------------------------------
(***************************************************************************)
(* Commit called again, checked under SpecReg.                             *)
(***************************************************************************)
IsCommitCall(i) == hist'[2].op = "Commit" /\ hist'[2].item = i

\* C11: a Commit on an item that has an attached object changes nothing: no
\* object is instantiated or registered, no snapshot is written, and the
\* attached object stays the same.
C11_SecondCommitIsNoOp ==
    [][\A i \in Items :
          (IsCommitCall(i) /\ m_Object[i] # NoObj)
          => UNCHANGED <<objs, objectMap, written, m_Object>>]_vars

----------------------------------------------------------------------------
(***************************************************************************)
(* SpecReloadPair: two threads call ReloadObject at the same time, caller  *)
(* 1 on the live host "a" (the first object), caller 2 on the live host    *)
(* "c" (the second).  Each call is followed through the regions of its     *)
(* code; the only lock on its way is the static mutex of ActivateItems.    *)
(***************************************************************************)
TargetOf(c) == c

\* The item updateObjectFunc compiles for the caller's target.
ReplacementOf(c) == IF c = 1 THEN 7 ELSE 10

SetPc(c, label) == callerPc' = [callerPc EXCEPT ![c] = label]

\* Lines 855-856: DeleteObjectHelper on the target, which has no parents.
RP_Delete(c) ==
    /\ callerPc[c] = "idle"
    /\ SetPc(c, "rebuild")
    /\ objs' = [objs EXCEPT ![TargetOf(c)].deleted = TRUE, ![TargetOf(c)].active = FALSE]
    /\ Unregister(GetByTypeAndName(objs[TargetOf(c)].type, objs[TargetOf(c)].name))
    /\ UNCHANGED <<m_IgnoredItems, m_ActivationContext, written, hist, rm, mtx,
                   reloadVars, pipeVars, obsVars>>

\* Lines 858-898 and 678-686: the rebuild up to the end of CommitItems.  The
\* callback throws before anything is registered, or the replacement item is
\* registered and committed.
RP_Rebuild(c) ==
    /\ callerPc[c] = "rebuild"
    /\ \E ok \in BOOLEAN :
          IF ok
          THEN /\ Register(ReplacementOf(c), c + 1)
               /\ Commit(ReplacementOf(c))
               /\ SetPc(c, "lock")
          ELSE /\ SetPc(c, "restoreAll")
               /\ UNCHANGED <<regVars, objVars>>
    /\ UNCHANGED <<hist, rm, mtx, reloadVars, pipeVars, obsVars>>

\* Lines 581-582: ActivateItems takes the static mutex.
RP_Lock(c) ==
    /\ callerPc[c] = "lock"
    /\ mtx = NoCaller
    /\ mtx' = c
    /\ SetPc(c, "activate")
    /\ UNCHANGED <<regVars, objVars, hist, rm, reloadVars, pipeVars, obsVars>>

\* Lines 602-663: both phases of ActivateItems on the replacement; the mutex
\* is released on return.
RP_Activate(c) ==
    /\ callerPc[c] = "activate"
    /\ mtx' = NoCaller
    /\ SetPc(c, "restore")
    /\ \E ok \in BOOLEAN :
          objs' = [objs EXCEPT ![m_Object[ReplacementOf(c)]].pre = "done",
                               ![m_Object[ReplacementOf(c)]].active = ok]
    /\ UNCHANGED <<regVars, objectMap, written, hist, rm, reloadVars, pipeVars, obsVars>>

\* Lines 794-830 and 905-911: RestoreObjectsHelper on the one deleted
\* object.
RP_Restore(c) ==
    /\ callerPc[c] \in {"restore", "restoreAll"}
    /\ SetPc(c, "done")
    /\ LET old == TargetOf(c)
           new == objectMap[ObjKey(old)]
       IN IF new # NoObj
          THEN /\ objs' = RestoreState(objs, old, new)
               /\ UNCHANGED <<m_Items, m_DefaultTemplates, m_UnnamedItems,
                              m_ActivationContext, objectMap>>
          ELSE /\ Register(objs[old].item, c + 1)
               /\ objs' = [objs EXCEPT ![old].deleted = FALSE, ![old].active = TRUE]
               /\ objectMap' = [objectMap EXCEPT ![ObjKey(old)] = old]
    /\ UNCHANGED <<m_IgnoredItems, m_Object, written, hist, rm, mtx, reloadVars,
                   pipeVars, obsVars>>

InitReloadPair ==
    /\ m_Items = [k \in Keys |-> IF k = Key(1) THEN 1 ELSE IF k = Key(6) THEN 6 ELSE NoItem]
    /\ m_DefaultTemplates = [k \in Keys |-> NoItem]
    /\ m_UnnamedItems = <<>>
    /\ m_IgnoredItems = <<>>
    /\ m_Object = [i \in Items |-> IF i = 1 THEN 1 ELSE IF i = 6 THEN 2 ELSE NoObj]
    /\ m_ActivationContext = [i \in Items |-> IF i \in {1, 6} THEN 1 ELSE NoCtx]
    /\ objs = <<LiveObject(1, 7), LiveObject(6, 5)>>
    /\ objectMap = [k \in ObjKeys |-> IF k = <<"Host", "a">> THEN 1
                                      ELSE IF k = <<"Host", "c">> THEN 2 ELSE NoObj]
    /\ written = <<1, 6>>
    /\ InitPipe("idle")
    /\ hist = <<NoCall, NoCall>>
    /\ rm = NoRm

NextReloadPair ==
    \E c \in Callers :
        \/ RP_Delete(c)
        \/ RP_Rebuild(c)
        \/ RP_Lock(c)
        \/ RP_Activate(c)
        \/ RP_Restore(c)

SpecReloadPair == InitReloadPair /\ [][NextReloadPair]_vars

InReload(c) == callerPc[c] \notin {"idle", "done"}

\* C12: while one ReloadObject call is between the start of its delete
\* phase and the end of its restore phase, no other ReloadObject call takes
\* a step.
C12_ReloadsNeverInterleave ==
    [][\A c \in Callers : \A d \in Callers \ {c} :
          InReload(c) => callerPc'[d] = callerPc[d]]_vars

----------------------------------------------------------------------------
(***************************************************************************)
(* The order of newItems, checked under SpecCommit.                        *)
(***************************************************************************)
Pos(q, i) == Min({n \in DOMAIN q : q[n] = i})

KeyPos(i) == Min({k \in DOMAIN KeySeq : KeySeq[k] = Key(i)})

\* Lines 484-494: the item's OnAllConfigLoaded threw and, the item having
\* ignore-on-error, the item was unregistered instead.
DroppedAtOAL(i) ==
    IsIgnoreOnError(i) /\ ItemDecl[i].oal = "throw" /\ i \in oalDone

\* Every non-abstract item registered under the context has been collected
\* and has its object, unless it was dropped under ignore-on-error.
AllOfContextCommitted ==
    \A i \in Items :
        (m_ActivationContext[i] = context /\ ~IsAbstract(i))
        => InSeq(newItems, i) /\ (m_Object[i] # NoObj \/ DroppedAtOAL(i))

PrecedesInBatch(x, y) ==
    \/ RegistersUnnamed(x) /\ RegistersUnnamed(y)
    \/ ~RegistersUnnamed(x) /\ RegistersUnnamed(y)
    \/ ~RegistersUnnamed(x) /\ ~RegistersUnnamed(y) /\ KeyPos(x) < KeyPos(y)

-----------------------------------------------------------------------------
(***************************************************************************)
(* CommitItems returning false (lines 548-554)                             *)
(***************************************************************************)

\* No object of item i is in the type registry.
NoObjectRegisteredOf(i) ==
    \A k \in ObjKeys : objectMap[k] # NoObj => objs[objectMap[k]].item # i

\* Item i is in no index of the registry and has no object.
FullyUnregistered(i) ==
    /\ m_Items[Key(i)] # i
    /\ m_DefaultTemplates[Key(i)] # i
    /\ ~InSeq(m_UnnamedItems, i)
    /\ m_Object[i] = NoObj
    /\ NoObjectRegisteredOf(i)

\* C14: when CommitItems has returned false, every item collected into
\* newItems is absent from the named index, the unnamed list and the
\* default-template index, has no object attached, and no object of it is
\* left in the type registry.
C14_FailureUnregistersBatch ==
    (pc = "done" /\ result = "false")
    => \A n \in DOMAIN newItems : FullyUnregistered(newItems[n])

\* CommitItems has returned false for a batch of two items or more, one of
\* which had been committed to an object before a task threw.
C14_Witness ==
    /\ pc = "done" /\ result = "false"
    /\ Len(newItems) >= 2
    /\ \E n \in DOMAIN newItems : \E o \in DOMAIN objs : objs[o].item = newItems[n]
    /\ \A n \in DOMAIN newItems : FullyUnregistered(newItems[n])

-----------------------------------------------------------------------------
(***************************************************************************)
(* The two indices of the registry (lines 329-352, 415-429, 365-368)       *)
(***************************************************************************)

InNamedIndex(i) == m_Items[Key(i)] = i

InUnnamedList(i) == InSeq(m_UnnamedItems, i)

\* Unregister has been called on item i: by CommitItems after a failure
\* (lines 550-552, the items before idx) or by the OnAllConfigLoaded task
\* (line 490).
WasUnregistered(i) ==
    \/ /\ pc \in {"CI_false", "done"}
       /\ \E n \in DOMAIN newItems : n < idx /\ newItems[n] = i
    \/ DroppedAtOAL(i)

\* Item i has been registered and Unregister has not been called on it.
RegisteredNotUnregistered(i) ==
    m_ActivationContext[i] # NoCtx /\ ~WasUnregistered(i)

\* Line 429: CommitNewItems took item i out of the unnamed list when it
\* collected it.
CollectedFromUnnamed(i) == RegistersUnnamed(i) /\ InSeq(newItems, i)

\* Lines 367-368: the Unregister of another item of the same type and name
\* erased the entry of item i.
ErasedByNamesake(i) ==
    \E j \in Items \ {i} : Key(j) = Key(i) /\ WasUnregistered(j)

\* C15 as stated: every item that is registered and not yet unregistered is
\* in exactly one of the named index and the unnamed list.
C15_InExactlyOneIndex ==
    \A i \in Items :
        RegisteredNotUnregistered(i) => (InNamedIndex(i) # InUnnamedList(i))

\* C15 amended: an item that is registered and not yet unregistered is
\* never in both the named index and the unnamed list; it is in neither
\* only when CommitNewItems collected it from the unnamed list or when the
\* Unregister of an item of the same type and name erased its entry.
C15_InAtMostOneIndex ==
    \A i \in Items :
        RegisteredNotUnregistered(i) =>
            /\ ~(InNamedIndex(i) /\ InUnnamedList(i))
            /\ (~InNamedIndex(i) /\ ~InUnnamedList(i))
               => (CollectedFromUnnamed(i) \/ ErasedByNamesake(i))

\* CreateChildObjects has registered the host "c" in the named index while
\* the service "b", collected from the unnamed list, is in neither index.
C15_Witness ==
    /\ RegisteredNotUnregistered(6) /\ InNamedIndex(6) /\ ~InUnnamedList(6)
    /\ RegisteredNotUnregistered(2) /\ CollectedFromUnnamed(2)
    /\ ~InNamedIndex(2) /\ ~InUnnamedList(2)

-----------------------------------------------------------------------------
(***************************************************************************)
(* CreateChildObjects and OnAllConfigLoaded (lines 475-532)                *)
(***************************************************************************)

\* The CreateChildObjects tasks that are enqueued or running.
CCOTasks == {t \in queue \cup running : t.kind = "CCO"}

\* The items of the running invocation that have an object of type T.
CommittedOfType(T) ==
    {Top.items[n] : n \in {m \in DOMAIN Top.items :
                              /\ m_Object[Top.items[m]] # NoObj
                              /\ m_Type(Top.items[m]) = T}}

\* C16 as stated: while CreateChildObjects(T) is enqueued or running,
\* OnAllConfigLoaded has completed for the invocation's objects of T's
\* load dependencies and has been invoked on no committed object of type T.
C16_ChildrenBeforeOwnTypeLoaded ==
    \A t \in CCOTasks :
        /\ \A D \in GetLoadDependencies(t.arg) : CommittedOfType(D) \subseteq oalDone
        /\ CommittedOfType(t.arg) \cap oalStarted = {}

\* C16 amended: while CreateChildObjects(T) is enqueued or running,
\* OnAllConfigLoaded has completed for the invocation's objects of T's
\* load dependencies and for its objects of type T as well.
C16_ChildrenAfterOwnTypeLoaded ==
    \A t \in CCOTasks :
        /\ \A D \in GetLoadDependencies(t.arg) : CommittedOfType(D) \subseteq oalDone
        /\ CommittedOfType(t.arg) \subseteq oalDone

\* CreateChildObjects("Service") runs on the host "a" of a batch that also
\* holds the committed service "b".
C16_Witness ==
    /\ \E t \in running : t.kind = "CCO" /\ t.arg = "Service" /\ t.item = 1
    /\ 1 \in oalDone
    /\ 2 \in CommittedOfType("Service") /\ 2 \in oalDone

-----------------------------------------------------------------------------
(***************************************************************************)
(* The two phases of ActivateItems (lines 602-639)                         *)
(***************************************************************************)

\* The Activate tasks that are enqueued or running.
ActivateTasks == {t \in queue \cup running : t.kind = "Activate"}

\* C17: Activate is invoked only on objects on which PreActivate was
\* invoked, the objects of the batch that were not active when ActivateItems
\* started; an object that was active then receives neither call.
C17_ActivateOnlyPreActivated ==
    \A t \in ActivateTasks : objs[m_Object[t.item]].pre # "no"

-----------------------------------------------------------------------------
(***************************************************************************)
(* Failures in ActivateItems (lines 584-623)                               *)
(***************************************************************************)

\* A PreActivate task of the call has thrown.
PreActivateThrew == \E o \in DOMAIN objs : objs[o].pre = "threw"

\* Both loops of ActivateItems have run: every object of the batch is
\* active or has had its PreActivate call.
PhasesRan ==
    \A n \in DOMAIN newItems :
        m_Object[newItems[n]] # NoObj =>
            \/ objs[m_Object[newItems[n]]].active
            \/ objs[m_Object[newItems[n]]].pre # "no"

\* C20: once a PreActivate task has thrown, no Activate is enqueued and
\* ActivateItems returns false; when the restore of the modified attributes
\* has failed, ActivateItems still runs its phases and returns false only
\* when a task threw.
C20_PreActivateFatalModAttrsNot ==
    /\ PreActivateThrew =>
          /\ ActivateTasks = {}
          /\ pc = "done" => result = "false"
    /\ (modAttrs \in {"evalFailed", "compileFailed"} /\ pc = "done") =>
          /\ result \in {"true", "false"}
          /\ result = "false" => upqExc
          /\ PhasesRan

-----------------------------------------------------------------------------
(***************************************************************************)
(* Items of other activation contexts (lines 408, 418-421)                 *)
(***************************************************************************)

\* The items registered under another context than the one being committed.
OtherContext == {i \in Items : m_ActivationContext[i] \notin {NoCtx, context}}

\* The unnamed list restricted to the items of other contexts.
OtherUnnamed(list) == SelectSeq(list, LAMBDA i : i \in OtherContext)

\* C18: a step of CommitNewItems(context) leaves every item registered under
\* another context with a null object and where it was in the named index,
\* the default-template index and the unnamed list, and runs no Commit,
\* OnAllConfigLoaded or CreateChildObjects task on it.
C18_OtherContextsUntouched ==
    [][pc = "CommitNewItems" =>
          /\ \A i \in OtherContext :
                /\ m_Object'[i] = NoObj
                /\ m_Items[Key(i)] = i => m_Items'[Key(i)] = i
                /\ m_DefaultTemplates[Key(i)] = i => m_DefaultTemplates'[Key(i)] = i
                /\ \A t \in queue' \cup running' : t.item # i
          /\ OtherUnnamed(m_UnnamedItems') = OtherUnnamed(m_UnnamedItems)]_vars

-----------------------------------------------------------------------------
(***************************************************************************)
(* SpecLoad: a configuration load.  The compiler has registered some of    *)
(* LoadItems; CommitItems runs, and after it returned true the caller      *)
(* passes the batch to ActivateItems, asking for the modified attributes.  *)
(***************************************************************************)
LoadItems == {1, 5, 13, 14}

\* The caller's step from CommitItems to ActivateItems(upq, newItems, false,
\* false, true).
Load_Activate ==
    /\ pc = "done"
    /\ result = "true"
    /\ modAttrs = "off"
    /\ pc' = "AI_call"
    /\ UNCHANGED <<regVars, objVars, hist, rm, lockVars, reloadVars, stack, queue, running,
                   upqExc, newItems, result, context, idx, obsVars>>

InitLoad == InitCommitFrom(OrdersOf(LoadItems))

NextLoad ==
    \/ CI_Start
    \/ CNI_Collect
    \/ CNI_JoinCommit
    \/ CNI_NextType
    \/ CNI_JoinOAL
    \/ CNI_JoinCCO
    \/ CNI_StackOverflow
    \/ StartTask
    \/ FinishCommit
    \/ FinishOAL
    \/ FinishCCO
    \/ CI_UnregisterNext
    \/ CI_ReturnFalse
    \/ CI_ReturnTrue
    \/ Load_Activate
    \/ AI_Start(TRUE)
    \/ AI_JoinPre
    \/ AI_JoinAct
    \/ FinishPreActivate
    \/ FinishActivate

SpecLoad == InitLoad /\ [][NextLoad]_vars

\* The objects that Commit created for item i.
ObjectsOf(i) == {o \in DOMAIN objs : objs[o].item = i}

\* What holds of an item dropped at OnAllConfigLoaded: it is in no index
\* and has no object, its object is out of the type registry, its path is
\* in the ignored list, and its object gets neither PreActivate nor
\* Activate.
DroppedForGood(i) ==
    /\ FullyUnregistered(i)
    /\ InSeq(m_IgnoredItems, ItemDecl[i].path)
    /\ \A t \in queue \cup running :
          t.kind \in {"PreActivate", "Activate"} => t.item # i
    /\ \A o \in ObjectsOf(i) : objs[o].pre = "no" /\ ~objs[o].active

\* The step in which the OnAllConfigLoaded task of item i ends by dropping
\* the item.
DropStep(i) == i \notin oalDone /\ DroppedAtOAL(i)'

\* The step leaves item j as it is: its object, its index entries and its
\* object's registration.
LeftAlone(j) ==
    /\ m_Object'[j] = m_Object[j]
    /\ InNamedIndex(j)' = InNamedIndex(j)
    /\ InUnnamedList(j)' = InUnnamedList(j)
    /\ NoObjectRegisteredOf(j)' = NoObjectRegisteredOf(j)

\* C19: when OnAllConfigLoaded throws for a committed ignore-on-error item,
\* the task unregisters the item and its object, appends the item's path
\* to the ignored list, puts no exception into the work queue and leaves
\* the other items of the batch alone; CommitItems returns false only when
\* a task put an exception into the queue; and ActivateItems afterwards
\* neither pre-activates nor activates the dropped item's object.
C19_IgnoredLoadFailureDropsItem ==
    [][/\ \A i \in Items :
             /\ DroppedAtOAL(i)' => DroppedForGood(i)'
             /\ DropStep(i) =>
                   /\ upqExc' = upqExc
                   /\ m_IgnoredItems' = Append(m_IgnoredItems, ItemDecl[i].path)
                   /\ \A n \in DOMAIN newItems :
                         newItems[n] # i => LeftAlone(newItems[n])
       /\ (pc # "done" /\ pc' = "done" /\ result' = "false") => upqExc]_vars

\* The load has ended: the host "f" was committed and then dropped when its
\* OnAllConfigLoaded threw, CommitItems returned true, and ActivateItems
\* has activated the host "a" and returned true.
C19_Witness ==
    /\ pc = "done" /\ result = "true"
    /\ modAttrs \in {"absent", "restored", "evalFailed"}
    /\ DroppedAtOAL(13) /\ DroppedForGood(13) /\ ObjectsOf(13) # {}
    /\ m_Object[1] # NoObj /\ objs[m_Object[1]].active

-----------------------------------------------------------------------------
(***************************************************************************)
(* Locks and work-queue joins (lines 442, 508, 529, 581-582, 618, 641)     *)
(***************************************************************************)

\* The calling thread is blocked in upq.Join(): it is at a join and some
\* task is still pending or running.
BlockedInJoin ==
    /\ ~JoinDone
    /\ \/ pc \in {"AI_joinPre", "AI_joinAct"}
       \/ InCNI("joinCommit") \/ InCNI("joinOAL") \/ InCNI("joinCCO")

\* C21: while a thread is blocked in a work-queue join it holds no lock;
\* here the activator mutex, the registry mutex being released at the end
\* of each block that takes it.
C21_NoLockAcrossJoin == BlockedInJoin => mtx = NoCaller

-----------------------------------------------------------------------------
(***************************************************************************)
(* The delete phase of ReloadObject (lines 761-792, 855-856)               *)
(***************************************************************************)

\* The objects reachable from o as parents in the dependency graph.
ReachableParents(o) == Range(Walk(o)) \ {o}

\* Object o is marked deleted, inactive and out of the type registry.
IsDeleted(os, om, o) ==
    /\ os[o].deleted
    /\ ~os[o].active
    /\ \A k \in ObjKeys : om[k] # o

\* The step in which DeleteObjectHelper deletes object o.
DeleteStep(o) == o \in DOMAIN objs /\ ~objs[o].deleted /\ objs'[o].deleted

-----------------------------------------------------------------------------
(***************************************************************************)
(* The restore phase of ReloadObject (lines 794-830, 899-911)              *)
(***************************************************************************)

\* No other object has taken the (type, name) of the deleted object old.
NotRecreated(old) == objectMap[ObjKey(old)] \in {NoObj, old}

\* The deleted object old is back: marker reset, registered and active.
Reinserted(old) ==
    /\ objectMap[ObjKey(old)] = old
    /\ ~objs[old].deleted
    /\ objs[old].active

\* C23: when ReloadObject has ended, a deleted object that was not
\* recreated is re-inserted exactly when the rebuild failed or the object's
\* creation type is "object".
C23_ReinsertsNotRecreated ==
    pc = "RO_done" =>
        \A n \in DOMAIN deletedObjects :
            LET old == deletedObjects[n].Object IN
            NotRecreated(old) =>
                (Reinserted(old) <=> (rl.recoverApply \/ objs[old].creationType = "object"))

-----------------------------------------------------------------------------
(***************************************************************************)
(* Termination of CommitNewItems (lines 395-540).  SpecCommitLive is       *)
(* SpecCommit with the calling thread and the work queue's threads always  *)
(* taking their next step.                                                 *)
(***************************************************************************)
SpecCommitLive == InitCommit /\ [][NextCommit]_vars /\ WF_vars(NextCommit)

\* C24: CommitItems, and with it every CommitNewItems it started, returns.
C24_CommitNewItemsTerminates == <>(pc = "done")

-----------------------------------------------------------------------------
(***************************************************************************)
(* The frame of Unregister (lines 358-369)                                 *)
(***************************************************************************)

\* C25: Unregister(i) leaves every other item j where it was in the named
\* index and the default-template index, and leaves the unnamed list as it
\* was but for i.
C25_UnregisterTouchesOnlyItsItem ==
    [][\A i \in RegItems :
          IsUnregisterCall(i) =>
             /\ \A j \in Items \ {i} :
                   /\ m_Items[Key(j)] = j => m_Items'[Key(j)] = j
                   /\ m_DefaultTemplates[Key(j)] = j => m_DefaultTemplates'[Key(j)] = j
             /\ SeqRemove(m_UnnamedItems', i) = SeqRemove(m_UnnamedItems, i)]_vars

-----------------------------------------------------------------------------
(***************************************************************************)
(* What ReloadObject returns with (lines 892-911, 685-691)                 *)
(***************************************************************************)

\* C26: when ReloadObject has returned without throwing, an object is
\* registered under the target's (type, name) and it is active.
C26_ReturnsWithActiveTarget ==
    (pc = "RO_done" /\ result = "returned") =>
        /\ objectMap[TargetKey] # NoObj
        /\ objs[objectMap[TargetKey]].active

-----------------------------------------------------------------------------
(***************************************************************************)
(* The registry after a restore (lines 811-828, 358-369)                   *)
(***************************************************************************)

\* C27: when ReloadObject has ended, every deleted object that was
\* re-inserted together with its item is the object attached to that item,
\* and GetByTypeAndName finds the item under the object's type and name.
C27_RestoredItemHasItsObject ==
    pc = "RO_done" =>
        \A n \in DOMAIN deletedObjects :
            LET old == deletedObjects[n].Object
                item == deletedObjects[n].Item
            IN (item # NoItem /\ Reinserted(old)) =>
                  /\ GetByTypeAndName(objs[old].type, objs[old].name) = item
                  /\ m_Object[item] = old

====
